---------------------------- MODULE Spec2Model ----------------------------
(***************************************************************************)
(* A model of frlg-render: the decoders of the packed tile / map-cell      *)
(* words, the map grid lookup, the tile atlas, the palette file parser and *)
(* the metatile compositor of LayoutTileset.                               *)
(*                                                                         *)
(* Every routine of the crate is a synchronous function over immutable     *)
(* loaded data, so each specification below fixes the loaded data in its   *)
(* initial states and has one action per routine; the action records the   *)
(* call and what it returned; one call is made per behaviour, since no     *)
(* call changes the loaded data.  A Rust panic (index out of bounds,       *)
(* unwrap of None, failed assert, arithmetic overflow under overflow       *)
(* checks) is the result Panic.                                            *)
(***************************************************************************)
EXTENDS Integers, Sequences, FiniteSets

VARIABLES
    tileset,    \* the LayoutTileset (primary, secondary), or Unused
    layout,     \* what map::Layout::load returned, or Unused
    input,      \* the raw input of the routine under study (word, files)
    atlas,      \* what parse_tileset_png returned, or Unused
    call,       \* the last call: the routine and its arguments
    ret         \* what the last call returned

vars == <<tileset, layout, input, atlas, call, ret>>

---------------------------------------------------------------------------
(* Results.                                                                *)

None == [kind |-> "None"]
Panic == [kind |-> "Panic"]
Err == [kind |-> "Err"]
Some(v) == [kind |-> "Some", val |-> v]
Ok(v) == [kind |-> "Ok", val |-> v]
Unused == [kind |-> "Unused"]
Idle == [op |-> "idle"]

---------------------------------------------------------------------------
(* Fixed-width integers and bit operations.                                *)

U16Max == 65535

RECURSIVE BitAnd(_, _)
BitAnd(a, b) ==
    IF a = 0 \/ b = 0 THEN 0
    ELSE (a % 2) * (b % 2) + 2 * BitAnd(a \div 2, b \div 2)

RECURSIVE BitOr(_, _)
BitOr(a, b) ==
    IF a = 0 THEN b
    ELSE IF b = 0 THEN a
    ELSE (IF a % 2 = 1 \/ b % 2 = 1 THEN 1 ELSE 0)
         + 2 * BitOr(a \div 2, b \div 2)

RECURSIVE Pow2(_)
Pow2(n) == IF n = 0 THEN 1 ELSE 2 * Pow2(n - 1)

Shr(a, n) == a \div Pow2(n)
Shl16(a, n) == (a * Pow2(n)) % (U16Max + 1)
AsU8(a) == a % 256
BoolBit(b) == IF b THEN 1 ELSE 0

\* value ^ (1 << bit), on 16-bit words
FlipBit(value, bit) ==
    IF BitAnd(value, Pow2(bit)) # 0 THEN value - Pow2(bit) ELSE value + Pow2(bit)

\* byteorder's read_u16::<LittleEndian> at byte offset `pos` (0-based) of a
\* byte sequence
ReadU16LE(bytes, pos) == bytes[pos + 1] + 256 * bytes[pos + 2]

---------------------------------------------------------------------------
(* tileset.rs: impl From<u16> for TileData                                 *)

\* the commented-out variant of the source: (value & 0x3ff).saturating_sub(640)
TileDataFromSaturatingSub(value) ==
    [tile_id |-> IF BitAnd(value, 1023) >= 640
                 THEN BitAnd(value, 1023) - 640 ELSE 0,
     flip_horizontal |-> BitAnd(value, 1024) # 0,
     flip_vertical |-> BitAnd(value, 2048) # 0,
     palette_number |-> AsU8(Shr(BitAnd(value, 61440), 12))]

TileDataFrom(value) ==
    [tile_id |-> BitAnd(value, 1023),                          \* 0x3ff
     flip_horizontal |-> BitAnd(value, 1024) # 0,              \* 0x400
     flip_vertical |-> BitAnd(value, 2048) # 0,                \* 0x800
     palette_number |-> AsU8(Shr(BitAnd(value, 61440), 12))]   \* 0xf000 >> 12

\* The packing of section 6 of the specification:
\* tile_id | hflip << 10 | vflip << 11 | palette << 12
TileDataEncode(t) ==
    BitOr(BitOr(t.tile_id, Shl16(BoolBit(t.flip_horizontal), 10)),
          BitOr(Shl16(BoolBit(t.flip_vertical), 11), Shl16(t.palette_number, 12)))

---------------------------------------------------------------------------
(* map.rs: impl From<u16> for MapMetatileData                              *)

MapMetatileDataFrom(value) ==
    [metatile_id |-> BitAnd(value, 1023),                      \* 0x03ff
     collision_data |-> AsU8(Shr(BitAnd(value, 3072), 10)),    \* 0x0c00 >> 10
     elevation |-> AsU8(Shr(BitAnd(value, 61440), 12))]        \* 0xf000 >> 12

---------------------------------------------------------------------------
(* Specification SpecTileData: TileData::from on every 16-bit word.        *)

InitTileData ==
    /\ tileset = Unused
    /\ layout = Unused
    /\ atlas = Unused
    /\ input \in 0..U16Max
    /\ call = Idle
    /\ ret = Unused

DecodeTileData ==
    /\ call = Idle
    /\ call' = [op |-> "TileData::from", value |-> input]
    /\ ret' = TileDataFrom(input)
    /\ UNCHANGED <<tileset, layout, input, atlas>>

NextTileData == DecodeTileData

SpecTileData == InitTileData /\ [][NextTileData]_vars

\* the first and last bit of each field of the packed word
FieldEdgeBits == {0, 9, 10, 11, 12, 15}

\* C6: for every 16-bit value v, TileData::from(v) has tile_id = bits 0-9,
\* flip_horizontal = bit 10, flip_vertical = bit 11, palette_number = bits
\* 12-15; re-encoding the four fields gives back v (so decode is injective),
\* and changing a bit at either end of any of the four fields changes the
\* decoded value.
TileDataRoundTrip ==
    call.op = "TileData::from" =>
        /\ ret.tile_id = call.value % 1024
        /\ ret.flip_horizontal = ((call.value \div 1024) % 2 = 1)
        /\ ret.flip_vertical = ((call.value \div 2048) % 2 = 1)
        /\ ret.palette_number = call.value \div 4096
        /\ TileDataEncode(ret) = call.value
        /\ \A bit \in FieldEdgeBits : TileDataFrom(FlipBit(call.value, bit)) # ret

\* a decoded word that uses every field: id 640, both flips, palette 15
TileDataRoundTripWitness ==
    /\ call.op = "TileData::from"
    /\ ret = [tile_id |-> 640, flip_horizontal |-> TRUE,
              flip_vertical |-> TRUE, palette_number |-> 15]

---------------------------------------------------------------------------
(* map.rs: MapData::from_files, Layout::load, Layout::tile_idx,            *)
(* Layout::get_metatile, Layout::get_metatile_mut                          *)

\* the cells of a map or border file, in file order
DecodeCells(bytes) ==
    [i \in 1..(Len(bytes) \div 2) |-> MapMetatileDataFrom(ReadU16LE(bytes, 2 * (i - 1)))]

MapDataFromFiles(map_bytes, border_bytes) ==
    IF Len(map_bytes) % 2 = 1 \/ Len(border_bytes) % 2 = 1
    THEN Err
    ELSE Ok([metatiles |-> DecodeCells(map_bytes),
             borders |-> DecodeCells(border_bytes)])

LayoutLoad(width, height, map_bytes, border_bytes) ==
    LET data == MapDataFromFiles(map_bytes, border_bytes)
    IN  IF data.kind = "Err" THEN Err
        ELSE Ok([width |-> width, height |-> height, map_data |-> data.val])

\* a column-major index
TileIdxColumnMajor(l, row, col) ==
    IF row >= l.height \/ col >= l.width
    THEN None
    ELSE Some(col * l.height + row)

\* The u32 product row * width + col does not overflow for the dimensions
\* this model draws (at most MaxDim + 1).
TileIdx(l, row, col) ==
    IF row >= l.height \/ col >= l.width
    THEN None
    ELSE Some(row * l.width + col)

\* Option::map over tile_idx, then an indexing of the Vec, which panics
\* when the index is not below its length
LayoutGetMetatile(l, row, col) ==
    LET idx == TileIdx(l, row, col)
    IN  IF idx.kind = "None" THEN None
        ELSE IF idx.val >= Len(l.map_data.metatiles) THEN Panic
        ELSE Some(l.map_data.metatiles[idx.val + 1])

\* Option::map over tile_idx, then a mutable borrow of the Vec's element,
\* which panics when the index is not below the length.  The reference is
\* the index of the cell it borrows.
LayoutGetMetatileMut(l, row, col) ==
    LET idx == TileIdx(l, row, col)
    IN  IF idx.kind = "None" THEN None
        ELSE IF idx.val >= Len(l.map_data.metatiles) THEN Panic
        ELSE Some(idx.val)

\* the layout after `reference.metatile_id = metatile_id`, the public field
\* of the cell a reference from get_metatile_mut borrows
WriteMetatileId(l, reference, metatile_id) ==
    [l EXCEPT !.map_data.metatiles[reference + 1].metatile_id = metatile_id]

\* the layout after `*reference = cell`: the whole cell replaced
WriteCell(l, reference, cell) ==
    [l EXCEPT !.map_data.metatiles[reference + 1] = cell]

---------------------------------------------------------------------------
(* Specification SpecLayout: a map file and a border file are loaded under *)
(* caller-supplied dimensions, then cells are looked up, and written       *)
(* through get_metatile_mut.  A panic ends the program.                    *)

MaxFileLen == 4     \* bytes of an enumerated map file
MaxDim == 2         \* largest width, height, row and column drawn
MaxWrittenCells == 2    \* cells that differ from the file's at one time

\* What a caller writes through a reference from get_metatile_mut.  The
\* field metatile_id is public and takes any u16: one that cells of the
\* drawn files hold too, one that fits the 10 bits and one that does not.
\* A whole cell is MapMetatileData::from of a word, or the copy of a cell
\* that get_metatile returned: the cells of the words 0x0400 and 0xffff.
WrittenIds == {3, 999, U16Max}
WrittenWords == {1024, U16Max}

ByteVals == {0, 255}

RECURSIVE SeqsUpTo(_, _)
SeqsUpTo(S, n) ==
    IF n = 0 THEN {<<>>}
    ELSE LET shorter == SeqsUpTo(S, n - 1)
         IN  shorter \cup {Append(q, x) : q \in {r \in shorter : Len(r) = n - 1}, x \in S}

\* the map file of section 8 of the specification: 0x0000, 0x0001, 0x0002,
\* 0x0003, little-endian; and its border file of two zero cells
ExampleMapFile == <<0, 0, 1, 0, 2, 0, 3, 0>>
ExampleBorderFile == <<0, 0, 0, 0>>

MapFiles == SeqsUpTo(ByteVals, MaxFileLen) \cup {ExampleMapFile}
BorderFiles == {ExampleBorderFile, <<0>>}

InitLayout ==
    /\ tileset = Unused
    /\ layout = Unused
    /\ atlas = Unused
    /\ input \in [width : 0..MaxDim, height : 0..MaxDim,
                  map : MapFiles, border : BorderFiles]
    /\ call = Idle
    /\ ret = Unused

Load ==
    /\ layout = Unused
    /\ layout' = LayoutLoad(input.width, input.height, input.map, input.border)
    /\ call' = [op |-> "Layout::load"]
    /\ ret' = Unused
    /\ UNCHANGED <<tileset, input, atlas>>

GetMetatile ==
    /\ call.op # "idle"
    /\ layout.kind = "Ok"
    /\ ret # Panic
    /\ \E row \in 0..MaxDim, col \in 0..MaxDim :
        /\ call' = [op |-> "get_metatile", row |-> row, col |-> col]
        /\ ret' = LayoutGetMetatile(layout.val, row, col)
    /\ UNCHANGED <<tileset, layout, input, atlas>>

\* the cells of a layout that are not the ones its map file decodes to
WrittenCells(l) ==
    {i \in 1..Len(l.map_data.metatiles) :
        l.map_data.metatiles[i] # DecodeCells(input.map)[i]}

\* get_metatile_mut(row, col), and what the caller does with the reference:
\* nothing, a write of the cell's metatile_id, or a write of the whole
\* cell.  Any number of such calls may follow one another, on the same
\* cell or on others, so a cell can be replaced and then given another id.
GetMetatileMut ==
    /\ call.op # "idle"
    /\ layout.kind = "Ok"
    /\ ret # Panic
    /\ \E row \in 0..MaxDim, col \in 0..MaxDim :
        LET reference == LayoutGetMetatileMut(layout.val, row, col)
        IN  /\ call' = [op |-> "get_metatile_mut", row |-> row, col |-> col]
            /\ ret' = reference
            /\ \/ UNCHANGED layout
               \/ /\ reference.kind = "Some"
                  /\ \E metatile_id \in WrittenIds :
                        layout' = Ok(WriteMetatileId(layout.val, reference.val,
                                                     metatile_id))
                  /\ Cardinality(WrittenCells(layout'.val)) <= MaxWrittenCells
               \/ /\ reference.kind = "Some"
                  /\ \E word \in WrittenWords :
                        layout' = Ok(WriteCell(layout.val, reference.val,
                                               MapMetatileDataFrom(word)))
                  /\ Cardinality(WrittenCells(layout'.val)) <= MaxWrittenCells
    /\ UNCHANGED <<tileset, input, atlas>>

NextLayout == Load \/ GetMetatile \/ GetMetatileMut

SpecLayout == InitLayout /\ [][NextLayout]_vars

\* C4 (as claimed): get_metatile(row, col) is absent whenever row >= height
\* or col >= width, and for any caller-supplied width and height it never
\* crashes: a position with no backing cell yields absent.
GetMetatileNeverCrashes ==
    call.op = "get_metatile" =>
        /\ (call.row >= layout.val.height \/ call.col >= layout.val.width)
               => ret = None
        /\ ret # Panic
        /\ (call.row * layout.val.width + call.col
               >= Len(layout.val.map_data.metatiles)) => ret = None

---------------------------------------------------------------------------
(* tileset.rs: parse_tileset_png, TilesetImage::get_tile                   *)

TILE_PIXEL_DIM == 8
PIXELS_PER_BYTE == 2

TilePixels == (0..(TILE_PIXEL_DIM - 1)) \X (0..(TILE_PIXEL_DIM - 1))

\* The decoded frame is [width, height, bit_depth, color_type, data]; the
\* png crate is not modelled, only the checks made on what it returned.
\* A failed assert_eq! is a panic.
ParseTilesetPng(png) ==
    IF \/ png.bit_depth # 4
       \/ png.width % 8 # 0
       \/ png.height % 8 # 0
       \/ png.color_type # "Indexed"
       \/ Len(png.data) # (png.width * png.height) \div 2
    THEN Panic
    ELSE Ok([tileset_data |-> png.data,
             tile_width |-> png.width \div 8,
             tile_height |-> png.height \div 8])

\* an offset that counts pixels, not packed bytes
GetTileOffsetUnpacked(img, tile_id, row, col) ==
    LET tile_x == tile_id % img.tile_width
        tile_y == tile_id \div img.tile_width
        tileset_pixel_x == tile_x * TILE_PIXEL_DIM + col
        tileset_pixel_y == tile_y * TILE_PIXEL_DIM + row
    IN  tileset_pixel_y * (img.tile_width * TILE_PIXEL_DIM) + tileset_pixel_x

\* the index into tileset_data that get_tile reads for pixel (col, row) of
\* tile tile_id
GetTileOffset(img, tile_id, row, col) ==
    LET tile_x == tile_id % img.tile_width
        tile_y == tile_id \div img.tile_width
        tileset_pixel_x == tile_x * TILE_PIXEL_DIM + col
        tileset_pixel_y == tile_y * TILE_PIXEL_DIM + row
    IN  (tileset_pixel_y * (img.tile_width * TILE_PIXEL_DIM) + tileset_pixel_x)
            \div PIXELS_PER_BYTE

\* The 8x8 GrayImage of a tile, as a function of <<col, row>> (get_pixel's
\* x, y).  An index of tileset_data past its length panics.
GetTile(img, tile_id) ==
    IF tile_id < img.tile_width * img.tile_height
    THEN IF \E p \in TilePixels :
                GetTileOffset(img, tile_id, p[2], p[1]) >= Len(img.tileset_data)
         THEN Panic
         ELSE Some([p \in TilePixels |->
                 LET byte == img.tileset_data[GetTileOffset(img, tile_id, p[2], p[1]) + 1]
                 IN  IF p[1] % 2 = 0 THEN Shr(byte, 4) ELSE BitAnd(byte, 15)])
    ELSE None

---------------------------------------------------------------------------
(* Atlas contents drawn by the specifications.                             *)

\* The 4-bit index of pixel (lx, ly) of tile number `tile` in the atlas
\* pattern `seed`: every third tile is blank (all index 0), the others hold
\* a pattern that no flip maps to itself.
PatternPixel(seed, tile, lx, ly) ==
    IF (tile + seed) % 3 = 0 THEN 0
    ELSE (lx + 3 * ly + 5 * tile + seed) % 16

\* the index of the n-th pixel (row-major) of a width-pixel wide atlas
PatternAt(seed, width, n) ==
    LET x == n % width
        y == n \div width
    IN  PatternPixel(seed, (y \div 8) * ((width + 7) \div 8) + x \div 8, x % 8, y % 8)

\* a frame buffer of `len` bytes, two pixels per byte, high nibble first
PatternData(seed, width, len) ==
    [i \in 1..len |->
        16 * PatternAt(seed, width, 2 * (i - 1)) + PatternAt(seed, width, 2 * (i - 1) + 1)]

\* the frame a png decoder hands back: height rows of ceil(width *
\* bit_depth / 8) bytes
Frame(width, height, bit_depth, color_type, seed) ==
    [width |-> width, height |-> height, bit_depth |-> bit_depth,
     color_type |-> color_type,
     data |-> PatternData(seed, width, height * ((width * bit_depth + 7) \div 8))]

---------------------------------------------------------------------------
(* Specification SpecAtlas: a decoded frame is checked by                  *)
(* parse_tileset_png, then tiles are fetched from the atlas.               *)

MaxTileDim == 2     \* largest tile_width and tile_height drawn
MaxSeed == 3        \* atlas patterns drawn

\* multiples of 8 up to MaxTileDim tiles, and one width that is not
FrameDims == {8 * k : k \in 1..MaxTileDim} \cup {12}

InitAtlas ==
    /\ tileset = Unused
    /\ layout = Unused
    /\ atlas = Unused
    /\ \E w \in FrameDims, h \in FrameDims, depth \in {4, 8},
          seed \in 0..MaxSeed :
          input = Frame(w, h, depth, "Indexed", seed)
    /\ call = Idle
    /\ ret = Unused

LoadAtlas ==
    /\ atlas = Unused
    /\ atlas' = ParseTilesetPng(input)
    /\ call' = [op |-> "parse_tileset_png"]
    /\ ret' = Unused
    /\ UNCHANGED <<tileset, layout, input>>

GetTileCall ==
    /\ call.op = "parse_tileset_png"
    /\ atlas.kind = "Ok"
    /\ \E tile_id \in 0..(MaxTileDim * MaxTileDim + 1) :
        /\ call' = [op |-> "get_tile", tile_id |-> tile_id]
        /\ ret' = GetTile(atlas.val, tile_id)
    /\ UNCHANGED <<tileset, layout, input, atlas>>

NextAtlas == LoadAtlas \/ GetTileCall

SpecAtlas == InitAtlas /\ [][NextAtlas]_vars

\* C9: for an atlas whose buffer length is (tile_width*8)*(tile_height*8)/2,
\* get_tile(tile_id) is present for every tile_id < tile_width*tile_height,
\* each of its 64 packed-byte reads falling inside the buffer, and absent
\* for every tile_id >= tile_width*tile_height.
GetTileInRange ==
    (call.op = "get_tile"
       /\ Len(atlas.val.tileset_data)
            = ((atlas.val.tile_width * 8) * (atlas.val.tile_height * 8)) \div 2) =>
        LET n == atlas.val.tile_width * atlas.val.tile_height
        IN  /\ call.tile_id < n =>
                /\ ret.kind = "Some"
                /\ \A p \in TilePixels :
                     GetTileOffset(atlas.val, call.tile_id, p[2], p[1])
                         \in 0..(Len(atlas.val.tileset_data) - 1)
            /\ call.tile_id >= n => ret = None

\* the last tile of a 2x2 atlas is present
GetTileInRangeWitness ==
    /\ call.op = "get_tile"
    /\ atlas.val.tile_width = 2 /\ atlas.val.tile_height = 2
    /\ Len(atlas.val.tileset_data) = 128
    /\ call.tile_id = 3
    /\ ret.kind = "Some"

---------------------------------------------------------------------------
(* palette.rs: parse_palette                                               *)
(*                                                                         *)
(* A file's text is a sequence of characters; "LF", "CR", "SP" and "TAB"   *)
(* stand for the line feed, the carriage return, the space and the tab.    *)

DigitChars == <<"0", "1", "2", "3", "4", "5", "6", "7", "8", "9">>

IsDigit(c) == \E d \in 1..10 : DigitChars[d] = c
DigitVal(c) == (CHOOSE d \in 1..10 : DigitChars[d] = c) - 1

IsAsciiWhitespace(c) == c \in {"SP", "TAB", "LF", "CR", "FF"}

StripCR(line) ==
    IF Len(line) > 0 /\ line[Len(line)] = "CR"
    THEN SubSeq(line, 1, Len(line) - 1)
    ELSE line

\* the position of the first LF of text at or after i, or 0
NextLF(text, i) ==
    IF \E j \in i..Len(text) : text[j] = "LF"
    THEN CHOOSE j \in i..Len(text) :
            text[j] = "LF" /\ \A k \in i..(j - 1) : text[k] # "LF"
    ELSE 0

\* str::lines: pieces ended by LF, a CR before the LF dropped; a last piece
\* without LF is a line when it is not empty
RECURSIVE SplitLines(_, _)
SplitLines(text, i) ==
    IF i > Len(text) THEN <<>>
    ELSE LET j == NextLF(text, i)
         IN  IF j = 0 THEN <<SubSeq(text, i, Len(text))>>
             ELSE <<StripCR(SubSeq(text, i, j - 1))>> \o SplitLines(text, j + 1)

Lines(text) == SplitLines(text, 1)

\* str::split_ascii_whitespace: the maximal runs of non-whitespace
RECURSIVE SplitTokens(_, _, _)
SplitTokens(line, i, cur) ==
    IF i > Len(line) THEN (IF cur = <<>> THEN <<>> ELSE <<cur>>)
    ELSE IF IsAsciiWhitespace(line[i])
         THEN (IF cur = <<>> THEN <<>> ELSE <<cur>>) \o SplitTokens(line, i + 1, <<>>)
    ELSE SplitTokens(line, i + 1, Append(cur, line[i]))

SplitAsciiWhitespace(line) == SplitTokens(line, 1, <<>>)

\* the digits of str::parse::<u8>, most significant first; a non-digit is
\* InvalidDigit and a value above 255 is PosOverflow
RECURSIVE ParseDigits(_, _, _)
ParseDigits(tok, i, acc) ==
    IF i > Len(tok) THEN Ok(acc)
    ELSE IF ~IsDigit(tok[i]) THEN Err
    ELSE IF acc * 10 + DigitVal(tok[i]) > 255 THEN Err
    ELSE ParseDigits(tok, i + 1, acc * 10 + DigitVal(tok[i]))

\* str::parse::<u8>: empty, a lone sign and "-" are errors; one leading "+"
\* is accepted
ParseU8(tok) ==
    IF tok = <<>> THEN Err
    ELSE IF tok = <<"+">> \/ tok = <<"-">> THEN Err
    ELSE IF tok[1] = "+" THEN ParseDigits(tok, 2, 0)
    ELSE ParseDigits(tok, 1, 0)

TagLine == <<"J", "A", "S", "C", "-", "P", "A", "L">>
VersionLine == <<"0", "1", "0", "0">>
CountLine == <<"1", "6">>

DefaultPalette == [i \in 1..16 |-> <<0, 0, 0>>]

\* One of the 16 color lines: lines.next().unwrap(), every token parsed and
\* unwrapped, assert_eq!(len, 3).  Panic, or the triple.
ParseColorLine(lines, n) ==
    IF n > Len(lines) THEN Panic
    ELSE LET toks == SplitAsciiWhitespace(lines[n])
         IN  IF \E t \in 1..Len(toks) : ParseU8(toks[t]).kind = "Err" THEN Panic
             ELSE IF Len(toks) # 3 THEN Panic
             ELSE Ok(<<ParseU8(toks[1]).val, ParseU8(toks[2]).val, ParseU8(toks[3]).val>>)

\* file is [readable, text]: read_to_string fails on a file that cannot be
\* read (or is not UTF-8) and that error is returned.  When the three header
\* lines do not match, the color loop is skipped and the default palette is
\* returned as Ok.
ParsePalette(file) ==
    IF ~file.readable THEN Err
    ELSE LET lines == Lines(file.text)
         IN  IF Len(lines) >= 3 /\ lines[1] = TagLine /\ lines[2] = VersionLine
                  /\ lines[3] = CountLine
             THEN IF \E k \in 1..16 : ParseColorLine(lines, 3 + k).kind = "Panic"
                  THEN Panic
                  ELSE Ok([inner |-> [k \in 1..16 |-> ParseColorLine(lines, 3 + k).val]])
             ELSE Ok([inner |-> DefaultPalette])

---------------------------------------------------------------------------
(* Specification SpecPalette: palette files around a well-formed one.      *)

MaxFileLines == 20  \* lines kept of a drawn palette file

\* the decimal digits of n < 1000
Decimal(n) ==
    IF n < 10 THEN <<DigitChars[n + 1]>>
    ELSE IF n < 100 THEN <<DigitChars[(n \div 10) + 1], DigitChars[(n % 10) + 1]>>
    ELSE <<DigitChars[(n \div 100) + 1], DigitChars[((n \div 10) % 10) + 1],
           DigitChars[(n % 10) + 1]>>

\* color line k (0..15) of the well-formed file: "k 16k+k 255-k"
GoodColorLine(k) ==
    Decimal(k) \o <<"SP">> \o Decimal(16 * k + k) \o <<"SP">> \o Decimal(255 - k)

\* a well-formed file, and one more line than the format has
GoodLines ==
    <<TagLine, VersionLine, CountLine>> \o [k \in 1..16 |-> GoodColorLine(k - 1)]
        \o <<GoodColorLine(0)>>

\* lines that take the place of one line of the well-formed file
OtherLines ==
    {<<>>,
     <<"J", "A", "S", "C">>,
     <<"0", "1", "0", "1">>,
     <<"1", "5">>,
     <<"1", "6", "SP">>,
     <<"1", "SP", "2">>,
     <<"1", "SP", "2", "SP", "3", "SP", "4">>,
     <<"1", "SP", "2", "SP", "2", "5", "6">>,
     <<"1", "SP", "-", "2", "SP", "3">>,
     <<"1", "SP", "x", "SP", "3">>,
     <<"TAB", "+", "1", "SP", "SP", "0", "0", "2", "TAB", "2", "5", "5", "SP">>}

RECURSIVE JoinLines(_, _)
JoinLines(lines, eol) ==
    IF lines = <<>> THEN <<>>
    ELSE lines[1] \o eol \o JoinLines(Tail(lines), eol)

PaletteFiles ==
    {[readable |-> TRUE,
      text |-> JoinLines(SubSeq([GoodLines EXCEPT ![i] = l], 1, n), eol)] :
        i \in 1..19, l \in OtherLines \cup {GoodColorLine(0)},
        n \in 0..MaxFileLines, eol \in {<<"LF">>, <<"CR", "LF">>}}
      \cup {[readable |-> FALSE, text |-> <<>>]}

InitPalette ==
    /\ tileset = Unused
    /\ layout = Unused
    /\ atlas = Unused
    /\ input \in PaletteFiles
    /\ call = Idle
    /\ ret = Unused

ParsePaletteCall ==
    /\ call = Idle
    /\ call' = [op |-> "parse_palette"]
    /\ ret' = ParsePalette(input)
    /\ UNCHANGED <<tileset, layout, input, atlas>>

NextPalette == ParsePaletteCall

SpecPalette == InitPalette /\ [][NextPalette]_vars

\* the first three lines are the tag, the version and the count, and each
\* of the 16 color lines is present and parses into exactly three bytes
WellFormedPalette(lines) ==
    /\ Len(lines) >= 19
    /\ lines[1] = TagLine /\ lines[2] = VersionLine /\ lines[3] = CountLine
    /\ \A k \in 4..19 :
          LET toks == SplitAsciiWhitespace(lines[k])
          IN  /\ Len(toks) = 3
              /\ \A t \in 1..3 : ParseU8(toks[t]).kind = "Ok"

\* C10 (as claimed): parsing a palette file whose header is not exactly
\* JASC-PAL / 0100 / 16, or one of whose 16 color lines is missing or does
\* not parse into exactly three 0-255 integers, returns an error value;
\* never a Palette, and never an abort.
MalformedPaletteIsError ==
    (call.op = "parse_palette" /\ input.readable
        /\ ~WellFormedPalette(Lines(input.text))) => ret = Err

---------------------------------------------------------------------------
(* tileset.rs: Tileset::get_metatile, Tileset::get_tile_image,             *)
(* LayoutTileset::get_metatile_image                                       *)
(*                                                                         *)
(* A Tileset is [metatiles, tile_image, palettes]; a Metatile is [tiles],  *)
(* its 8 TileData; a Palette is [inner], 16 <<r, g, b>> triples.  Rust's   *)
(* 0-based indices are kept in the arguments and shifted by one where a    *)
(* sequence is indexed.                                                    *)

SECONDARY_METATILE_REBASE == 640    \* metatile_id - 640
PRIMARY_TILE_LIMIT == 640           \* tileset_tile_id < 640, tile_id - 640
METATILE_DIMENSION == 16

ImagePixels == (0..(METATILE_DIMENSION - 1)) \X (0..(METATILE_DIMENSION - 1))

\* ImageBuffer::new: every channel 0
NewRgbImage == [q \in ImagePixels |-> <<0, 0, 0>>]

\* Palette::get
PaletteGet(palette, entry) == palette.inner[entry + 1]

\* &self.metatiles[metatile_id]: an index that is not below the length
\* panics.  A negative metatile_id stands for a usize subtraction that went
\* below zero: with overflow checks that subtraction panics, without them it
\* wraps to an index far above any length, and the indexing panics.
TilesetGetMetatile(ts, metatile_id) ==
    IF metatile_id < 0 \/ metatile_id >= Len(ts.metatiles)
    THEN Panic
    ELSE Some(ts.metatiles[metatile_id + 1])

\* The RgbaImage of a tile, as a function of <<col, row>>.  get_tile's None
\* is returned by `?` before any palette is touched; palettes[palette_number]
\* panics when there are not that many palettes.
GetTileImage(ts, tile_id, flip_vertical, flip_horizontal, palette_number, tileset_image) ==
    LET gray_tile == GetTile(tileset_image, tile_id)
    IN  IF gray_tile.kind # "Some" THEN gray_tile
        ELSE IF palette_number >= Len(ts.palettes) THEN Panic
        ELSE Some([p \in TilePixels |->
                LET col == p[1]
                    row == p[2]
                    tile_row == IF ~flip_vertical THEN row ELSE 7 - row
                    tile_col == IF ~flip_horizontal THEN col ELSE 7 - col
                    index == gray_tile.val[<<tile_col, tile_row>>]
                    palette_value == PaletteGet(ts.palettes[palette_number + 1], index)
                    alpha == IF index = 0 THEN 0 ELSE 255
                IN  <<palette_value[1], palette_value[2], palette_value[3], alpha>>])

\* the metatile a global id selects: None, Panic or Some(metatile)
SelectMetatile(lt, metatile_id) ==
    LET end_of_primary == Len(lt.primary.metatiles)
        end_of_secondary == Len(lt.secondary.metatiles) + end_of_primary
    IN  IF metatile_id < end_of_primary
        THEN TilesetGetMetatile(lt.primary, metatile_id)
        ELSE IF metatile_id >= end_of_primary /\ metatile_id < end_of_secondary
        THEN TilesetGetMetatile(lt.secondary, metatile_id - SECONDARY_METATILE_REBASE)
        ELSE None

\* a split of the tile ids at the primary tileset's metatile count
TileImageForSplitAtMetatileCount(lt, tile) ==
    IF tile.tile_id < Len(lt.primary.metatiles)
    THEN GetTileImage(lt.primary, tile.tile_id, tile.flip_vertical,
                      tile.flip_horizontal, tile.palette_number,
                      lt.primary.tile_image)
    ELSE GetTileImage(lt.secondary, tile.tile_id - Len(lt.primary.metatiles),
                      tile.flip_vertical, tile.flip_horizontal,
                      tile.palette_number, lt.secondary.tile_image)

\* the two flip flags passed in each other's place
TileImageForSwappedFlips(lt, tile) ==
    IF tile.tile_id < PRIMARY_TILE_LIMIT
    THEN GetTileImage(lt.primary, tile.tile_id, tile.flip_horizontal,
                      tile.flip_vertical, tile.palette_number,
                      lt.primary.tile_image)
    ELSE GetTileImage(lt.secondary, tile.tile_id - PRIMARY_TILE_LIMIT,
                      tile.flip_horizontal, tile.flip_vertical,
                      tile.palette_number, lt.secondary.tile_image)

\* the tile image of one TileData of a metatile: the atlas and the palettes
\* of the primary tileset below tile id 640, of the secondary from 640 on
TileImageFor(lt, tile) ==
    IF tile.tile_id < PRIMARY_TILE_LIMIT
    THEN GetTileImage(lt.primary, tile.tile_id, tile.flip_vertical,
                      tile.flip_horizontal, tile.palette_number,
                      lt.primary.tile_image)
    ELSE GetTileImage(lt.secondary, tile.tile_id - PRIMARY_TILE_LIMIT,
                      tile.flip_vertical, tile.flip_horizontal,
                      tile.palette_number, lt.secondary.tile_image)

\* a pixel loop that copies every pixel, whatever its alpha
BlitTileOpaque(image, tile_image, layer, col, row) ==
    [q \in ImagePixels |->
        LET pixel_col == q[1] - 8 * col
            pixel_row == q[2] - 8 * row
        IN  IF pixel_col \in 0..7 /\ pixel_row \in 0..7
            THEN LET px == tile_image[<<pixel_col, pixel_row>>]
                 IN  <<px[1], px[2], px[3]>>
            ELSE image[q]]

\* the pixel loop of one (layer, col, row): a top-layer pixel of alpha 0 is
\* skipped, every other pixel is copied (its first three channels)
BlitTile(image, tile_image, layer, col, row) ==
    [q \in ImagePixels |->
        LET pixel_col == q[1] - 8 * col
            pixel_row == q[2] - 8 * row
        IN  IF pixel_col \in 0..7 /\ pixel_row \in 0..7
            THEN LET px == tile_image[<<pixel_col, pixel_row>>]
                 IN  IF layer = 1 /\ px[4] = 0 THEN image[q]
                     ELSE <<px[1], px[2], px[3]>>
            ELSE image[q]]

\* the (layer, col, row) triples of `for layer { for col { for row` over
\* the given layers, in the order the loops visit them
LoopSteps(layers) ==
    LET inner == <<<<0, 0>>, <<0, 1>>, <<1, 0>>, <<1, 1>>>>      \* <<col, row>>
    IN  [k \in 1..(4 * Len(layers)) |->
            <<layers[((k - 1) \div 4) + 1], inner[((k - 1) % 4) + 1][1],
              inner[((k - 1) % 4) + 1][2]>>]

\* the loop from step k on: a tile image that is None is logged and its
\* quadrant left as it is; a panic ends the render
RECURSIVE CompositeFrom(_, _, _, _, _)
CompositeFrom(lt, metatile, image, steps, k) ==
    IF k > Len(steps) THEN Some(image)
    ELSE LET layer == steps[k][1]
             col == steps[k][2]
             row == steps[k][3]
             tile_idx == layer * 4 + row * 2 + col
             tile_image == TileImageFor(lt, metatile.tiles[tile_idx + 1])
         IN  IF tile_image.kind = "Panic" THEN Panic
             ELSE IF tile_image.kind = "None"
             THEN CompositeFrom(lt, metatile, image, steps, k + 1)
             ELSE CompositeFrom(lt, metatile,
                                BlitTile(image, tile_image.val, layer, col, row),
                                steps, k + 1)

\* the 16x16 block of a metatile composited over the given layers
CompositeLayers(lt, metatile, layers) ==
    CompositeFrom(lt, metatile, NewRgbImage, LoopSteps(layers), 1)

GetMetatileImage(lt, metatile_id) ==
    LET metatile == SelectMetatile(lt, metatile_id)
    IN  IF metatile.kind # "Some" THEN metatile
        ELSE CompositeLayers(lt, metatile.val, <<0, 1>>)

---------------------------------------------------------------------------
(* Specification Spec: a LayoutTileset is loaded, then metatiles and tiles *)
(* are rendered from it.                                                   *)

MaxMetatiles == 2       \* metatiles of a small metatile table
SmallPaletteCount == 2  \* palettes of a tileset that has fewer than 16
MaxRenderSeed == 1      \* atlas patterns drawn for the primary atlas

\* the packed word of a tile reference
Ref(tile_id, hflip, vflip, palette) ==
    tile_id + 1024 * hflip + 2048 * vflip + 4096 * palette

\* The 16-byte records the metatile tables are filled with, as 8 words:
\* slots 0-3 the bottom layer, 4-7 the top layer.  The primary atlas drawn
\* below has tiles 0-3, the secondary tiles 0-2 (references 640-642).
MetatileRecords ==
    << \* plain bottom, top of tiles that are blank in some atlas patterns
       <<Ref(1, 0, 0, 0), Ref(2, 0, 0, 1), Ref(640, 0, 0, 0), Ref(641, 0, 0, 1),
         Ref(0, 0, 0, 0), Ref(3, 1, 0, 1), Ref(642, 0, 1, 0), Ref(0, 1, 1, 1)>>,
       \* every combination of flips, both atlases in both layers
       <<Ref(1, 1, 0, 1), Ref(2, 0, 1, 0), Ref(640, 1, 1, 1), Ref(641, 0, 0, 0),
         Ref(2, 1, 0, 0), Ref(641, 0, 1, 1), Ref(1, 1, 1, 0), Ref(640, 1, 0, 1)>>,
       \* references past the end of either atlas
       <<Ref(639, 0, 0, 0), Ref(1, 0, 0, 0), Ref(1023, 0, 0, 15), Ref(2, 0, 0, 1),
         Ref(4, 0, 0, 0), Ref(643, 1, 0, 9), Ref(1, 0, 0, 1), Ref(641, 0, 0, 0)>>,
       \* palettes up to 15
       <<Ref(1, 0, 0, 15), Ref(2, 0, 0, 2), Ref(640, 0, 0, 7), Ref(641, 0, 0, 1),
         Ref(0, 0, 0, 15), Ref(2, 0, 0, 12), Ref(642, 0, 0, 3), Ref(640, 0, 0, 15)>>,
       \* a bottom layer of tiles that are blank in some atlas patterns
       <<Ref(0, 0, 0, 0), Ref(3, 0, 0, 1), Ref(642, 0, 0, 1), Ref(0, 1, 0, 0),
         Ref(0, 0, 0, 1), Ref(1, 0, 0, 0), Ref(642, 0, 0, 0), Ref(641, 1, 1, 1)>> >>

\* a Metatile from its 8 words, as parse_metatile_files builds it
MetatileFromWords(words) == [tiles |-> [k \in 1..8 |-> TileDataFrom(words[k])]]

\* palette p, entry i of tileset `tag`: no two entries alike, none black
PaletteOf(tag, p) == [inner |-> [i \in 1..16 |-> <<16 * p + (i - 1), 255 - (i - 1), tag>>]]

\* a Tileset of `count` metatiles, the records taken in turn from `shift` on
MakeTileset(tag, count, shift, width, height, seed, palette_count) ==
    [metatiles |-> [i \in 1..count |->
        MetatileFromWords(
            MetatileRecords[((i - 1 + shift) % Len(MetatileRecords)) + 1])],
     tile_image |-> ParseTilesetPng(Frame(width, height, 4, "Indexed", seed)).val,
     palettes |-> [p \in 1..palette_count |-> PaletteOf(tag, p - 1)]]

\* table sizes: empty, small, and for the primary also the 640 of the
\* rebase and one more
PrimaryCounts == {0, MaxMetatiles, SECONDARY_METATILE_REBASE,
                  SECONDARY_METATILE_REBASE + 1}
SecondaryCounts == {0, MaxMetatiles}

\* the global ids that are rendered
MetatileIds == (0..(2 * MaxMetatiles)) \cup (639..643) \cup {U16Max}

\* A metatile table whose records hold references past the end of the
\* atlas they are routed to (primary tiles 0-3, secondary 640-642):
\* one below a drawn top reference; one in the top layer, with palette 15;
\* one beside an in-range reference of palette 15; tile 639, the last id
\* routed to the primary atlas; and both references of one quadrant.
OutOfRangeRecords ==
    <<<<Ref(4, 0, 0, 0), Ref(2, 0, 0, 1), Ref(640, 0, 0, 0), Ref(641, 0, 0, 1),
        Ref(1, 0, 0, 0), Ref(3, 1, 0, 1), Ref(642, 0, 1, 0), Ref(0, 1, 1, 1)>>,
      <<Ref(1, 0, 0, 0), Ref(2, 0, 0, 1), Ref(640, 0, 0, 0), Ref(641, 0, 0, 1),
        Ref(0, 0, 0, 0), Ref(1023, 1, 1, 15), Ref(642, 0, 0, 0), Ref(2, 0, 0, 0)>>,
      <<Ref(1, 0, 0, 0), Ref(2, 0, 0, 15), Ref(643, 0, 0, 0), Ref(641, 0, 0, 1),
        Ref(0, 0, 0, 0), Ref(3, 0, 0, 1), Ref(642, 0, 0, 0), Ref(2, 0, 0, 0)>>,
      <<Ref(1, 0, 0, 0), Ref(639, 0, 1, 9), Ref(640, 0, 0, 0), Ref(641, 0, 0, 1),
        Ref(0, 0, 0, 0), Ref(3, 0, 0, 1), Ref(642, 0, 0, 0), Ref(2, 0, 0, 0)>>,
      <<Ref(1, 0, 0, 0), Ref(2, 0, 0, 1), Ref(640, 0, 0, 0), Ref(643, 0, 0, 1),
        Ref(0, 0, 0, 0), Ref(3, 0, 0, 1), Ref(642, 0, 0, 0), Ref(4, 1, 0, 7)>>>>

\* the primary tileset with that table in place of its own
WithOutOfRangeRecords(ts) ==
    [ts EXCEPT !.metatiles =
        [i \in 1..Len(OutOfRangeRecords) |-> MetatileFromWords(OutOfRangeRecords[i])]]

Init ==
    /\ layout = Unused
    /\ atlas = Unused
    /\ input = Unused
    /\ \E seed \in 0..MaxRenderSeed, palette_count \in {SmallPaletteCount, 16} :
          \/ \E pc \in PrimaryCounts, sc \in SecondaryCounts :
                tileset = [primary |-> MakeTileset(1, pc, 0, 16, 16, seed, palette_count),
                           secondary |-> MakeTileset(2, sc, 1, 8, 24, seed + 1,
                                                     palette_count)]
          \/ tileset = [primary |-> WithOutOfRangeRecords(
                                        MakeTileset(1, 0, 0, 16, 16, seed, palette_count)),
                        secondary |-> MakeTileset(2, 0, 1, 8, 24, seed + 1,
                                                  palette_count)]
    /\ call = Idle
    /\ ret = Unused

GetMetatileImageCall ==
    /\ call = Idle
    /\ \E metatile_id \in MetatileIds :
        /\ call' = [op |-> "get_metatile_image", metatile_id |-> metatile_id]
        /\ ret' = GetMetatileImage(tileset, metatile_id)
    /\ UNCHANGED <<tileset, layout, input, atlas>>

GetTileImageCall ==
    /\ call = Idle
    /\ \E which \in {"primary", "secondary"}, tile_id \in {0, 1, 4},
          flip_vertical \in BOOLEAN, flip_horizontal \in BOOLEAN,
          palette_number \in {0, 15} :
        /\ call' = [op |-> "get_tile_image", which |-> which, tile_id |-> tile_id,
                    flip_vertical |-> flip_vertical,
                    flip_horizontal |-> flip_horizontal,
                    palette_number |-> palette_number]
        /\ ret' = GetTileImage(tileset[which], tile_id, flip_vertical,
                               flip_horizontal, palette_number,
                               tileset[which].tile_image)
    /\ UNCHANGED <<tileset, layout, input, atlas>>

Next == GetMetatileImageCall \/ GetTileImageCall

Spec == Init /\ [][Next]_vars

---------------------------------------------------------------------------
(* What the claims say of a render, stated without the compositor.         *)

PrimaryCount == Len(tileset.primary.metatiles)
SecondaryCount == Len(tileset.secondary.metatiles)

Rendered == call.op = "get_metatile_image" /\ ret.kind = "Some"

\* the metatile a finished render composited
RenderedMetatile == SelectMetatile(tileset, call.metatile_id).val

\* the tileset a raw tile id belongs to and its index there, by the fixed
\* split at 640
TilesetOfTile(lt, tile_id) == IF tile_id < 640 THEN lt.primary ELSE lt.secondary
IndexOfTile(tile_id) == IF tile_id < 640 THEN tile_id ELSE tile_id - 640

\* the 8x8 index grid a tile reference names, or None
SourceTile(lt, tile) ==
    GetTile(TilesetOfTile(lt, tile.tile_id).tile_image, IndexOfTile(tile.tile_id))

\* the slot (1..8) of the reference drawn at output pixel q in a layer
SlotAt(q, layer) == layer * 4 + (q[2] \div 8) * 2 + (q[1] \div 8) + 1

\* the pixel of a tile that a reference's flips bring to output pixel q
SourcePixel(tile, q) ==
    <<IF tile.flip_horizontal THEN 7 - (q[1] % 8) ELSE q[1] % 8,
      IF tile.flip_vertical THEN 7 - (q[2] % 8) ELSE q[2] % 8>>

\* the color a reference's palette gives an index
ColorOf(lt, tile, index) ==
    LET c == TilesetOfTile(lt, tile.tile_id).palettes[tile.palette_number + 1].inner[index + 1]
    IN  <<c[1], c[2], c[3]>>

\* The pixel q of the block of metatile m: the top reference's pixel unless
\* its tile is out of range or its index is 0, else the bottom reference's
\* pixel, else black.
ExpectedPixel(lt, m, src, q) ==
    LET top == m.tiles[SlotAt(q, 1)]
        bot == m.tiles[SlotAt(q, 0)]
        top_src == src[SlotAt(q, 1)]
        bot_src == src[SlotAt(q, 0)]
    IN  IF top_src.kind = "Some" /\ top_src.val[SourcePixel(top, q)] # 0
        THEN ColorOf(lt, top, top_src.val[SourcePixel(top, q)])
        ELSE IF bot_src.kind = "Some"
        THEN ColorOf(lt, bot, bot_src.val[SourcePixel(bot, q)])
        ELSE <<0, 0, 0>>

\* C1 (as claimed): for every global id g with primary_count <= g <
\* primary_count + secondary_count, get_metatile_image(g) renders the
\* secondary tileset's metatile g - primary_count, whatever primary_count is.
SecondaryRebasedByPrimaryCount ==
    (call.op = "get_metatile_image"
        /\ PrimaryCount <= call.metatile_id
        /\ call.metatile_id < PrimaryCount + SecondaryCount) =>
        ret = CompositeLayers(tileset,
                  tileset.secondary.metatiles[call.metatile_id - PrimaryCount + 1],
                  <<0, 1>>)

\* C2 (as claimed): get_metatile_image(g) is None exactly when g >=
\* primary_count + secondary_count, and a 16x16 image, never an abort, for
\* every g below; ids below primary_count render the primary metatile g.
MetatileImageTotalBelowCount ==
    call.op = "get_metatile_image" =>
        /\ (ret = None) <=> (call.metatile_id >= PrimaryCount + SecondaryCount)
        /\ call.metatile_id < PrimaryCount + SecondaryCount =>
              /\ ret.kind = "Some"
              /\ DOMAIN ret.val = ImagePixels
        /\ call.metatile_id < PrimaryCount =>
              ret = CompositeLayers(tileset,
                        tileset.primary.metatiles[call.metatile_id + 1], <<0, 1>>)

\* C3: in every rendered block, of a primary or a secondary metatile, each
\* of the 8 tile references with tile_id < 640 is drawn from the primary
\* atlas at tile_id and each with tile_id >= 640 from the secondary atlas
\* at tile_id - 640, whatever the primary metatile count is: every pixel is
\* the one those tiles give.
TileSplitAt640 ==
    Rendered =>
        LET m == RenderedMetatile
            src == [s \in 1..8 |-> SourceTile(tileset, m.tiles[s])]
        IN  \A q \in ImagePixels : ret.val[q] = ExpectedPixel(tileset, m, src, q)

\* a secondary metatile rendered with a visible tile of each atlas, under a
\* primary metatile count above both tile ids' split
TileSplitAt640Witness ==
    /\ Rendered
    /\ PrimaryCount = 640 /\ call.metatile_id = 640
    /\ LET m == RenderedMetatile
       IN  /\ m = tileset.secondary.metatiles[1]
           /\ \E s \in 1..8 : m.tiles[s].tile_id = 2
           /\ \E s \in 1..8 : m.tiles[s].tile_id = 641
           /\ \E q \in ImagePixels : ret.val[q][3] = 1
           /\ \E q \in ImagePixels : ret.val[q][3] = 2

\* every pixel of the tile a reference names has index 0
BlankSource(lt, tile) ==
    /\ SourceTile(lt, tile).kind = "Some"
    /\ \A p \in TilePixels : SourceTile(lt, tile).val[p] = 0

\* C7: a rendered block whose four top-layer references (slots 4-7) name
\* tiles of index-0 pixels only equals the block composited from the four
\* bottom-layer tiles alone; in any rendered block a top-layer pixel of
\* index 0 leaves the bottom-layer pixel as it is, and a bottom-layer pixel
\* of index 0 is written with entry 0 of its palette.
TransparentTopFallsThrough ==
    Rendered =>
        LET m == RenderedMetatile
            src == [s \in 1..8 |-> SourceTile(tileset, m.tiles[s])]
            bottom == CompositeLayers(tileset, m, <<0>>)
        IN  /\ (\A s \in 5..8 : BlankSource(tileset, m.tiles[s])) => ret = bottom
            /\ \A q \in ImagePixels :
                 LET top == m.tiles[SlotAt(q, 1)]
                     bot == m.tiles[SlotAt(q, 0)]
                     top_src == src[SlotAt(q, 1)]
                     bot_src == src[SlotAt(q, 0)]
                 IN  /\ (top_src.kind = "Some" /\ top_src.val[SourcePixel(top, q)] = 0)
                            => ret.val[q] = bottom.val[q]
                     /\ (bot_src.kind = "Some" /\ bot_src.val[SourcePixel(bot, q)] = 0)
                            => bottom.val[q] = ColorOf(tileset, bot, 0)

\* a block with a blank top layer over a bottom layer that holds pixels of
\* index 0 and of other indices
TransparentTopFallsThroughWitness ==
    /\ Rendered
    /\ LET m == RenderedMetatile
       IN  /\ \A s \in 5..8 : BlankSource(tileset, m.tiles[s])
           /\ \E q \in ImagePixels :
                 /\ SourceTile(tileset, m.tiles[SlotAt(q, 0)]).kind = "Some"
                 /\ SourceTile(tileset, m.tiles[SlotAt(q, 0)]).val[
                        SourcePixel(m.tiles[SlotAt(q, 0)], q)] = 0
                 /\ ret.val[q] = ColorOf(tileset, m.tiles[SlotAt(q, 0)], 0)
           /\ \E q \in ImagePixels :
                 /\ SourceTile(tileset, m.tiles[SlotAt(q, 0)]).kind = "Some"
                 /\ SourceTile(tileset, m.tiles[SlotAt(q, 0)]).val[
                        SourcePixel(m.tiles[SlotAt(q, 0)], q)] # 0

\* the reference with both flips cleared
Unflipped(tile) == [tile EXCEPT !.flip_horizontal = FALSE, !.flip_vertical = FALSE]

\* C8: the 8x8 image of an in-range tile rendered with flip_horizontal has
\* pixel (col, row) equal to pixel (7 - col, row) of the unflipped image,
\* with flip_vertical pixel (col, 7 - row), each flag leaving the other axis
\* alone; and in a rendered block the flip_horizontal bit of a reference
\* mirrors the columns of its tile and the flip_vertical bit its rows.
FlipsMirrorOwnAxis ==
    /\ (call.op = "get_tile_image" /\ ret.kind = "Some") =>
          LET ts == tileset[call.which]
              plain == GetTileImage(ts, call.tile_id, FALSE, FALSE,
                                    call.palette_number, ts.tile_image)
          IN  \A p \in TilePixels :
                 ret.val[p] =
                    plain.val[<<IF call.flip_horizontal THEN 7 - p[1] ELSE p[1],
                                IF call.flip_vertical THEN 7 - p[2] ELSE p[2]>>]
    /\ Rendered =>
          LET m == RenderedMetatile
              plain == [s \in 1..8 |-> TileImageFor(tileset, Unflipped(m.tiles[s]))]
          IN  \A q \in ImagePixels :
                 LET top == plain[SlotAt(q, 1)]
                     bot == plain[SlotAt(q, 0)]
                     top_px == top.val[SourcePixel(m.tiles[SlotAt(q, 1)], q)]
                     bot_px == bot.val[SourcePixel(m.tiles[SlotAt(q, 0)], q)]
                 IN  ret.val[q] =
                        IF top.kind = "Some" /\ top_px[4] # 0
                        THEN <<top_px[1], top_px[2], top_px[3]>>
                        ELSE IF bot.kind = "Some"
                        THEN <<bot_px[1], bot_px[2], bot_px[3]>>
                        ELSE <<0, 0, 0>>

\* a rendered block whose first bottom reference is flipped horizontally
\* only and whose second is flipped vertically only, both tiles in range
FlipsMirrorOwnAxisWitness ==
    /\ Rendered
    /\ LET m == RenderedMetatile
       IN  /\ m.tiles[1].flip_horizontal /\ ~m.tiles[1].flip_vertical
           /\ m.tiles[2].flip_vertical /\ ~m.tiles[2].flip_horizontal
           /\ SourceTile(tileset, m.tiles[1]).kind = "Some"
           /\ SourceTile(tileset, m.tiles[2]).kind = "Some"

\* the slots (1..8) of the references of m that are out of range for the
\* atlas they are routed to
OutOfRangeSlots(lt, m) == {s \in 1..8 : SourceTile(lt, m.tiles[s]).kind = "None"}

\* C12 (as claimed): when a reference of the selected metatile is out of
\* range for its atlas, get_metatile_image does not abort; it returns a
\* 16x16 block in which that reference writes nothing (its quadrant is
\* black where no other reference draws) and every other pixel is the one
\* the remaining references composite to, whatever tile_id and
\* palette_number the reference carries.
OutOfRangeReferenceSkipped ==
    (call.op = "get_metatile_image"
        /\ SelectMetatile(tileset, call.metatile_id).kind = "Some"
        /\ OutOfRangeSlots(tileset, SelectMetatile(tileset, call.metatile_id).val) # {}) =>
        /\ ret.kind = "Some"
        /\ DOMAIN ret.val = ImagePixels
        /\ LET m == RenderedMetatile
               src == [s \in 1..8 |-> SourceTile(tileset, m.tiles[s])]
           IN  \A q \in ImagePixels :
                  /\ ret.val[q] = ExpectedPixel(tileset, m, src, q)
                  /\ (SlotAt(q, 0) \in OutOfRangeSlots(tileset, m)
                        /\ SlotAt(q, 1) \in OutOfRangeSlots(tileset, m))
                        => ret.val[q] = <<0, 0, 0>>

---------------------------------------------------------------------------
(* palette.rs: is_pal_file, palette_number, parse_all_palettes             *)
(*                                                                         *)
(* A directory is [readable, entries]; entries is the sequence read_dir    *)
(* yields, in the order it yields them.  An entry is [ok, stem, ext, file]: *)
(* ok is FALSE for an entry read_dir reports as an error; stem and ext are *)
(* the file stem and the extension of its path, as characters ("NONUTF8"   *)
(* stands for a byte that is not UTF-8, ext is <<>> when the path has no   *)
(* extension); file is what parse_palette finds at the path.               *)

PalExt == <<"p", "a", "l">>

\* extension().unwrap_or_default() ... to_str().unwrap_or_default() == "pal"
IsPalFile(entry) == entry.ext = PalExt

\* A u32 is [hi, lo], its upper and lower 16 bits.
U32Less(a, b) == a.hi < b.hi \/ (a.hi = b.hi /\ a.lo < b.lo)

\* the digits of str::parse::<u32>: checked multiply by 10 and add; a
\* non-digit is InvalidDigit, a value above u32::MAX is PosOverflow
RECURSIVE ParseU32Digits(_, _, _)
ParseU32Digits(tok, i, acc) ==
    IF i > Len(tok) THEN Ok(acc)
    ELSE IF ~IsDigit(tok[i]) THEN Err
    ELSE LET lo == acc.lo * 10 + DigitVal(tok[i])
             hi == acc.hi * 10 + (lo \div (U16Max + 1))
         IN  IF hi > U16Max THEN Err
             ELSE ParseU32Digits(tok, i + 1, [hi |-> hi, lo |-> lo % (U16Max + 1)])

\* str::parse::<u32>: empty, a lone sign and "-" are errors; one leading "+"
\* is accepted
ParseU32(tok) ==
    IF tok = <<>> THEN Err
    ELSE IF tok = <<"+">> \/ tok = <<"-">> THEN Err
    ELSE IF tok[1] = "+" THEN ParseU32Digits(tok, 2, [hi |-> 0, lo |-> 0])
    ELSE ParseU32Digits(tok, 1, [hi |-> 0, lo |-> 0])

\* path.file_stem().unwrap().to_str().unwrap().parse().unwrap()
PaletteNumber(entry) ==
    IF \E i \in 1..Len(entry.stem) : entry.stem[i] = "NONUTF8" THEN Panic
    ELSE IF ParseU32(entry.stem).kind = "Err" THEN Panic
    ELSE Ok(ParseU32(entry.stem).val)

\* the entries that pass the filter_map, in enumeration order
PalPaths(entries) == SelectSeq(entries, LAMBDA e : e.ok /\ IsPalFile(e))

\* .map(parse_palette(..).map(|palette| (palette, palette_number(..))))
\* .collect::<io::Result<Vec<_>>>(): the paths are taken one by one; the
\* first parse_palette error ends the collection with that error, and a
\* panic of parse_palette or palette_number ends the call.
RECURSIVE CollectPalettes(_, _, _)
CollectPalettes(paths, i, acc) ==
    IF i > Len(paths) THEN Ok(acc)
    ELSE LET palette == ParsePalette(paths[i].file)
         IN  IF palette.kind = "Panic" THEN Panic
             ELSE IF palette.kind = "Err" THEN Err
             ELSE IF PaletteNumber(paths[i]).kind = "Panic" THEN Panic
             ELSE CollectPalettes(paths, i + 1,
                    Append(acc, <<palette.val, PaletteNumber(paths[i]).val>>))

\* one insertion of the stable sort: x goes after every pair whose number
\* is not greater than its own
InsertByNumber(sorted, x) ==
    LET n == Cardinality({i \in 1..Len(sorted) : ~U32Less(x[2], sorted[i][2])})
    IN  SubSeq(sorted, 1, n) \o <<x>> \o SubSeq(sorted, n + 1, Len(sorted))

\* palettes.sort_by(|(_, a), (_, b)| a.cmp(b)): a stable sort on the number
RECURSIVE SortByNumber(_, _, _)
SortByNumber(pairs, i, sorted) ==
    IF i > Len(pairs) THEN sorted
    ELSE SortByNumber(pairs, i + 1, InsertByNumber(sorted, pairs[i]))

ParseAllPalettes(dir) ==
    IF ~dir.readable THEN Err
    ELSE LET collected == CollectPalettes(PalPaths(dir.entries), 1, <<>>)
         IN  IF collected.kind # "Ok" THEN collected
             ELSE LET sorted == SortByNumber(collected.val, 1, <<>>)
                  IN  Ok([i \in 1..Len(sorted) |-> sorted[i][1]])

---------------------------------------------------------------------------
(* Specification SpecDir: parse_all_palettes over small directories.       *)

MaxEntries == 3  \* entries of a drawn directory

\* a well-formed palette file whose 16 colors are (c, k, 255)
PaletteFileOf(c) ==
    [readable |-> TRUE,
     text |-> JoinLines(<<TagLine, VersionLine, CountLine>>
                \o [k \in 1..16 |->
                       Decimal(c) \o <<"SP">> \o Decimal(k - 1) \o <<"SP">> \o Decimal(255)],
                <<"LF">>)]

\* a file whose first color line has two values
ShortColorFile ==
    [readable |-> TRUE,
     text |-> JoinLines(<<TagLine, VersionLine, CountLine, <<"1", "SP", "2">>>>, <<"LF">>)]

\* a file of another format
OtherFormatFile ==
    [readable |-> TRUE, text |-> JoinLines(<<<<"J", "A", "S", "C">>>>, <<"LF">>)]

UnreadableFile == [readable |-> FALSE, text |-> <<>>]

DirEntry(stem, ext, file) == [ok |-> TRUE, stem |-> stem, ext |-> ext, file |-> file]

\* the files a drawn directory is made of: 0.pal, 1.pal, 01.pal, 2.pal,
\* 10.pal, 4294967295.pal, 4294967296.pal, x.pal, a name that is not UTF-8,
\* notes.txt, 3.PAL, a file without extension, an unreadable 4.pal, a 5.pal
\* with a short color line, a 6.pal of another format, and an entry that
\* read_dir fails to read
EntryPool ==
    {DirEntry(<<"0">>, PalExt, PaletteFileOf(10)),
     DirEntry(<<"1">>, PalExt, PaletteFileOf(11)),
     DirEntry(<<"0", "1">>, PalExt, PaletteFileOf(12)),
     DirEntry(<<"2">>, PalExt, PaletteFileOf(13)),
     DirEntry(<<"1", "0">>, PalExt, PaletteFileOf(14)),
     DirEntry(<<"4", "2", "9", "4", "9", "6", "7", "2", "9", "5">>, PalExt, PaletteFileOf(15)),
     DirEntry(<<"4", "2", "9", "4", "9", "6", "7", "2", "9", "6">>, PalExt, PaletteFileOf(16)),
     DirEntry(<<"x">>, PalExt, PaletteFileOf(17)),
     DirEntry(<<"7", "NONUTF8">>, PalExt, PaletteFileOf(18)),
     DirEntry(<<"n", "o", "t", "e", "s">>, <<"t", "x", "t">>, PaletteFileOf(19)),
     DirEntry(<<"3">>, <<"P", "A", "L">>, PaletteFileOf(20)),
     DirEntry(<<"8">>, <<>>, PaletteFileOf(21)),
     DirEntry(<<"4">>, PalExt, UnreadableFile),
     DirEntry(<<"5">>, PalExt, ShortColorFile),
     DirEntry(<<"6">>, PalExt, OtherFormatFile),
     [ok |-> FALSE, stem |-> <<>>, ext |-> <<>>, file |-> UnreadableFile]}

\* the enumerations of at most n distinct files of the pool
Enumerations(n) ==
    UNION {{e \in [1..k -> EntryPool] : \A i, j \in 1..k : i # j => e[i] # e[j]} : k \in 0..n}

Directories ==
    {[readable |-> TRUE, entries |-> e] : e \in Enumerations(MaxEntries)}
        \cup {[readable |-> FALSE, entries |-> <<>>]}

InitDir ==
    /\ tileset = Unused
    /\ layout = Unused
    /\ atlas = Unused
    /\ input \in Directories
    /\ call = Idle
    /\ ret = Unused

ParseAllPalettesCall ==
    /\ call = Idle
    /\ call' = [op |-> "parse_all_palettes"]
    /\ ret' = ParseAllPalettes(input)
    /\ UNCHANGED <<tileset, layout, input, atlas>>

NextDir == ParseAllPalettesCall

SpecDir == InitDir /\ [][NextDir]_vars

\* the orders in which the entries of a directory can be enumerated
Reorderings(entries) ==
    {e \in [1..Len(entries) -> {entries[i] : i \in 1..Len(entries)}] :
        \A i, j \in 1..Len(entries) : i # j => e[i] # e[j]}

\* C11 (as claimed): when parse_all_palettes succeeds, the list it returns
\* has as many palettes as the directory has entries with extension "pal",
\* the palettes are those of these entries taken in strictly increasing
\* numeric value of the file stem, and every other enumeration order of the
\* same entries returns the same list.
PalettesOrderedByStem ==
    (call.op = "parse_all_palettes" /\ ret.kind = "Ok") =>
        LET pals == PalPaths(input.entries)
            n == Len(pals)
        IN  /\ Len(ret.val) = n
            /\ \E f \in [1..n -> 1..n] :
                  /\ \A i, j \in 1..n : i < j =>
                        U32Less(PaletteNumber(pals[f[i]]).val, PaletteNumber(pals[f[j]]).val)
                  /\ \A i \in 1..n : ret.val[i] = ParsePalette(pals[f[i]].file).val
            /\ \A e \in Reorderings(input.entries) :
                  ParseAllPalettes([input EXCEPT !.entries = e]) = ret

---------------------------------------------------------------------------
(* tileset.rs: MetatileAttributes::from, parse_metatile_files              *)
(*                                                                         *)
(* A file is [readable, bytes].  A u32 is [hi, lo], its upper and lower 16 *)
(* bits.  A parsed Metatile is [tiles, _attributes].                       *)

METATILE_SIZE == 16     \* 8 * 2
ATTR_SIZE == 4

\* read_u32::<LittleEndian> of the 4 bytes after position pos
ReadU32LE(bytes, pos) ==
    [lo |-> bytes[pos + 1] + 256 * bytes[pos + 2],
     hi |-> bytes[pos + 3] + 256 * bytes[pos + 4]]

\* (value >> 29) & 0b011, then the layer type; 3 falls back to MiddleTop
MetatileAttributesFrom(value) ==
    LET v == BitAnd(Shr(value.hi, 13), 3)
    IN  [_layer_type |-> IF v = 0 THEN "MiddleTop"
                         ELSE IF v = 1 THEN "BottomMiddle"
                         ELSE IF v = 2 THEN "BottomTop"
                         ELSE "MiddleTop"]

\* (0..8).map(read_u16).collect(): the 8 TileData after position pos, or the
\* error of a read past the end
ReadTileData(bytes, pos) ==
    IF \E k \in 0..7 : pos + 2 * k + 2 > Len(bytes) THEN Err
    ELSE Ok([k \in 1..8 |-> TileDataFrom(ReadU16LE(bytes, pos + 2 * (k - 1)))])

\* a loop that stops at the end of the shorter file
RECURSIVE ReadMetatilesWhileBoth(_, _, _, _, _)
ReadMetatilesWhileBoth(metatile_raw_data, attrs_raw_data, cursor, attr_cursor, metatiles) ==
    IF cursor = Len(metatile_raw_data) THEN Ok(metatiles)
    ELSE IF attr_cursor + ATTR_SIZE > Len(attrs_raw_data) THEN Ok(metatiles)
    ELSE LET attr == MetatileAttributesFrom(ReadU32LE(attrs_raw_data, attr_cursor))
             tile_data == ReadTileData(metatile_raw_data, cursor)
         IN  IF tile_data.kind = "Err" THEN Err
             ELSE ReadMetatilesWhileBoth(metatile_raw_data, attrs_raw_data,
                        cursor + METATILE_SIZE, attr_cursor + ATTR_SIZE,
                        Append(metatiles, [tiles |-> tile_data.val, _attributes |-> attr]))

\* the while loop from the two cursor positions on: each turn reads one
\* attribute word, then 8 tile words, and pushes the Metatile; a read past
\* the end of either buffer is returned as the error
RECURSIVE ReadMetatiles(_, _, _, _, _)
ReadMetatiles(metatile_raw_data, attrs_raw_data, cursor, attr_cursor, metatiles) ==
    IF cursor = Len(metatile_raw_data) THEN Ok(metatiles)
    ELSE IF attr_cursor + ATTR_SIZE > Len(attrs_raw_data) THEN Err
    ELSE LET attr == MetatileAttributesFrom(ReadU32LE(attrs_raw_data, attr_cursor))
             tile_data == ReadTileData(metatile_raw_data, cursor)
         IN  IF tile_data.kind = "Err" THEN Err
             ELSE ReadMetatiles(metatile_raw_data, attrs_raw_data,
                        cursor + METATILE_SIZE, attr_cursor + ATTR_SIZE,
                        Append(metatiles, [tiles |-> tile_data.val, _attributes |-> attr]))

ParseMetatileFiles(metatile_file, attributes_file) ==
    IF ~metatile_file.readable THEN Err
    ELSE IF ~attributes_file.readable THEN Err
    ELSE IF Len(metatile_file.bytes) % METATILE_SIZE # 0 THEN Err
    ELSE IF Len(attributes_file.bytes) % ATTR_SIZE # 0 THEN Err
    ELSE ReadMetatiles(metatile_file.bytes, attributes_file.bytes, 0, 0, <<>>)

---------------------------------------------------------------------------
(* Specification SpecMetatiles: parse_metatile_files over files of every   *)
(* length up to a few records.                                             *)

MaxRecords == 2     \* whole records of the longest drawn file
MaxFileSeed == 1    \* byte patterns drawn for the two files

\* byte p (from 0) of a drawn file: no two records alike
FileByte(seed, stride, p) == (p * stride + 29 * seed + 3 * (p \div 4)) % 256

FileOf(seed, stride, len) ==
    [readable |-> TRUE, bytes |-> [p \in 1..len |-> FileByte(seed, stride, p - 1)]]

MetatileFiles ==
    {FileOf(seed, 7, len) : seed \in 0..MaxFileSeed,
                             len \in 0..(METATILE_SIZE * MaxRecords + 1)}
        \cup {[readable |-> FALSE, bytes |-> <<>>]}

AttributeFiles ==
    {FileOf(seed, 37, len) : seed \in 0..MaxFileSeed,
                              len \in 0..(ATTR_SIZE * (MaxRecords + 1) + 1)}
        \cup {[readable |-> FALSE, bytes |-> <<>>]}

InitMetatiles ==
    /\ tileset = Unused
    /\ layout = Unused
    /\ atlas = Unused
    /\ \E m \in MetatileFiles, a \in AttributeFiles :
          input = [metatiles_file |-> m, attributes_file |-> a]
    /\ call = Idle
    /\ ret = Unused

ParseMetatileFilesCall ==
    /\ call = Idle
    /\ call' = [op |-> "parse_metatile_files"]
    /\ ret' = ParseMetatileFiles(input.metatiles_file, input.attributes_file)
    /\ UNCHANGED <<tileset, layout, input, atlas>>

NextMetatiles == ParseMetatileFilesCall

SpecMetatiles == InitMetatiles /\ [][NextMetatiles]_vars

\* the Metatile of record i (from 1) of the two files
MetatileOfRecord(metatile_bytes, attr_bytes, i) ==
    [tiles |-> [k \in 1..8 |->
        TileDataFrom(metatile_bytes[16 * (i - 1) + 2 * k - 1]
                        + 256 * metatile_bytes[16 * (i - 1) + 2 * k])],
     _attributes |->
        [_layer_type |->
            LET v == (attr_bytes[4 * i] \div 32) % 4
            IN  IF v = 1 THEN "BottomMiddle" ELSE IF v = 2 THEN "BottomTop"
                ELSE "MiddleTop"]]

\* C13: parse_metatile_files of two readable files returns an error or a
\* table, never an abort; an error always when the metatile file's length
\* is not a multiple of 16, the attribute file's not a multiple of 4, or
\* the attribute file holds fewer records than the metatile file; and a
\* table has exactly metatiles_file.len()/16 metatiles, the i-th built from
\* the i-th 16-byte record and the i-th 4-byte attribute word.
NoPartialMetatileTable ==
    (call.op = "parse_metatile_files"
        /\ input.metatiles_file.readable /\ input.attributes_file.readable) =>
        LET mb == input.metatiles_file.bytes
            ab == input.attributes_file.bytes
        IN  /\ ret.kind \in {"Err", "Ok"}
            /\ (Len(mb) % 16 # 0 \/ Len(ab) % 4 # 0 \/ Len(ab) \div 4 < Len(mb) \div 16)
                  => ret = Err
            /\ ret.kind = "Ok" =>
                  /\ Len(ret.val) = Len(mb) \div 16
                  /\ \A i \in 1..Len(ret.val) : ret.val[i] = MetatileOfRecord(mb, ab, i)

\* a table of two metatiles of different tiles and layer types, parsed
\* beside an attribute file of three records
NoPartialMetatileTableWitness ==
    /\ call.op = "parse_metatile_files"
    /\ Len(input.metatiles_file.bytes) = 32
    /\ Len(input.attributes_file.bytes) = 12
    /\ ret.kind = "Ok"
    /\ Len(ret.val) = 2
    /\ ret.val[1].tiles # ret.val[2].tiles
    /\ ret.val[1]._attributes # ret.val[2]._attributes

=============================================================================
